---- MODULE Spec2Model ----
(***************************************************************************)
(* Model of three pieces of the Blueprint repository:                      *)
(*   - MenuItem.render (packages/core/src/components/menu/menuItem.tsx),   *)
(*     a pure function from a prop bag to an element tree;                 *)
(*   - OmnibarExample (docs-app/.../omnibarExample.tsx), a component whose *)
(*     handlers call setState;                                             *)
(*   - the uncontrolled Select popover driven by the <Select> test suite.  *)
(*                                                                         *)
(* JavaScript values are modelled as strings ("true", "false",             *)
(* "undefined", "null", or an opaque token); JavaScript objects are        *)
(* functions whose DOMAIN is the set of keys the object has, so that       *)
(* object spread, key presence and defaulting behave as in the source.     *)
(***************************************************************************)
EXTENDS Naturals, Sequences, FiniteSets, TLC

VARIABLES
    props,          \* MenuItem: this.props as passed by the caller (popoverProps, submenuProps apart)
    popoverProps,   \* MenuItem: this.props.popoverProps
    submenuProps,   \* MenuItem: this.props.submenuProps
    output,         \* MenuItem: the element tree returned by the last render()
    rendered,       \* MenuItem: whether render() has run
    state,          \* OmnibarExample: this.state
    updateQueue,    \* OmnibarExample: the partial states passed to setState and not yet applied
    toasts,         \* OmnibarExample: the messages passed to this.toaster.show, in order
    events,         \* OmnibarExample: the handler calls so far (history)
    selectProps,    \* Select: the props the test mounts it with
    selectState,    \* Select: this.state.isOpen
    onOpeningCalls, \* Select: how often the caller's popoverProps.onOpening spy was called
    selectEvent,    \* Select: the last simulated event (history)
    selectSteps     \* Select: the number of simulated events so far

menuVars == <<props, popoverProps, submenuProps, output, rendered>>

omnibarVars == <<state, updateQueue, toasts, events>>

selectVars == <<selectProps, selectState, onOpeningCalls, selectEvent, selectSteps>>

vars == <<props, popoverProps, submenuProps, output, rendered,
          state, updateQueue, toasts, events,
          selectProps, selectState, onOpeningCalls, selectEvent, selectSteps>>

----------------------------------------------------------------------------
(* JavaScript values and objects *)

Undefined == "undefined"

Null == "null"

\* the marker of a key the caller does not pass at all
Absent == "<absent>"

EmptyObject == [k \in {} |-> Undefined]

\* o[k] in JavaScript: undefined for a key the object lacks
Get(o, k) == IF k \in DOMAIN o THEN o[k] ELSE Undefined

\* { ...a, ...b }: the keys of both, b's value where b has the key
Spread(a, b) == [k \in DOMAIN a \cup DOMAIN b |-> IF k \in DOMAIN b THEN b[k] ELSE a[k]]

\* the rest of a destructuring: const { k1, k2, ...rest } = o
Rest(o, ks) == [k \in DOMAIN o \ ks |-> o[k]]

\* JavaScript truthiness of a value
Truthy(v) == v \notin {Undefined, Null, "false", ""}

\* v == null
IsNullish(v) == v \in {Undefined, Null}

\* Boolean(v)
ToBoolean(v) == IF Truthy(v) THEN "true" ELSE "false"

\* the object a caller writes: the keys chosen as Absent are not part of it
ObjectOf(r) == [k \in {x \in DOMAIN r : r[x] # Absent} |-> r[k]]

----------------------------------------------------------------------------
(* packages/core: MenuItem *)

\* class names of Classes.* used by MenuItem (symbolic: their text is defined elsewhere)
MENU_ITEM == "Classes.MENU_ITEM"

ACTIVE == "Classes.ACTIVE"

DISABLED == "Classes.DISABLED"

POPOVER_DISMISS == "Classes.POPOVER_DISMISS"

SELECTED == "Classes.SELECTED"

MENU_ITEM_ICON == "Classes.MENU_ITEM_ICON"

MENU_ITEM_LABEL == "Classes.MENU_ITEM_LABEL"

MENU_SUBMENU == "Classes.MENU_SUBMENU"

MENU_SUBMENU_ICON == "Classes.MENU_SUBMENU_ICON"

FILL == "Classes.FILL"

\* the classes a class-name string contributes to classNames(...): none when falsy.
\* Every class-name string of the model is a single class.
ClassTokens(s) == IF Truthy(s) THEN {s} ELSE {}

\* Classes.intentClass(intent): undefined without an intent
intentClass(intent) == IF IsNullish(intent) \/ intent = "none" THEN Undefined ELSE "Classes.INTENT_" \o intent

\* MenuItem.defaultProps, popoverProps apart (its default is the empty object)
defaultProps ==
    [active |-> "false", disabled |-> "false", multiline |-> "false",
     selected |-> Undefined, shouldDismissPopover |-> "true", text |-> ""]

\* React resolves defaultProps for every prop that is undefined
ResolveDefaultProps(p) ==
    [k \in DOMAIN p \cup DOMAIN defaultProps |->
        IF k \in DOMAIN defaultProps /\ Get(p, k) = Undefined THEN defaultProps[k] ELSE p[k]]

\* the props render() destructures by name; the others are htmlProps
DestructuredProps ==
    {"active", "className", "children", "disabled", "intent", "labelClassName", "labelElement",
     "multiline", "popoverProps", "roleStructure", "selected", "shouldDismissPopover",
     "submenuProps", "text", "textClassName", "tagName", "htmlTitle"}

htmlPropsOf(p) == Rest(p, DestructuredProps)

SUBMENU_POPOVER_MODIFIERS == "SUBMENU_POPOVER_MODIFIERS"

\* props to ignore when disabled
DISABLED_PROPS ==
    [href |-> Undefined, onClick |-> Undefined, onMouseDown |-> Undefined,
     onMouseEnter |-> Undefined, onMouseLeave |-> Undefined, tabIndex |-> "-1"]

\* roleStructureOf with the target's role left at "menuitem" in the listoption structure
roleStructureOf_TargetRoleKept(p) ==
    LET roleStructure == IF Get(p, "roleStructure") = Undefined THEN "menuitem" ELSE p.roleStructure
        selected == Get(p, "selected")
    IN  IF roleStructure = "listoption"
        THEN [liRole |-> "option",
              targetRole |-> "menuitem",
              icon |-> IF ~IsNullish(Get(p, "icon")) THEN p.icon
                       ELSE IF selected = Undefined THEN Undefined
                       ELSE IF Truthy(selected) THEN "small-tick" ELSE "blank",
              ariaSelected |-> ToBoolean(selected)]
        ELSE [liRole |-> "none",
              targetRole |-> "menuitem",
              icon |-> Get(p, "icon"),
              ariaSelected |-> Undefined]

\* const [liRole, targetRole, icon, ariaSelected] = roleStructure === "listoption" ? [...] : [...]
roleStructureOf(p) ==
    LET roleStructure == IF Get(p, "roleStructure") = Undefined THEN "menuitem" ELSE p.roleStructure
        selected == Get(p, "selected")
    IN  IF roleStructure = "listoption"
        THEN [liRole |-> "option",
              targetRole |-> Undefined,
              icon |-> IF ~IsNullish(Get(p, "icon")) THEN p.icon
                       ELSE IF selected = Undefined THEN Undefined
                       ELSE IF Truthy(selected) THEN "small-tick" ELSE "blank",
              ariaSelected |-> ToBoolean(selected)]
        ELSE [liRole |-> "none",
              targetRole |-> "menuitem",
              icon |-> Get(p, "icon"),
              ariaSelected |-> Undefined]

\* hasSubmenuOf as a truthiness test of children (!!children) instead of children != null
hasSubmenuOf_Truthy(p) == Truthy(Get(p, "children"))

hasSubmenuOf(p) == ~IsNullish(Get(p, "children"))

\* anchorClassesOf without the !disabled conjunct of the dismiss class
anchorClassesOf_DismissWhenDisabled(p) ==
    LET ic == intentClass(Get(p, "intent"))
    IN  {MENU_ITEM}
        \cup ClassTokens(ic)
        \cup (IF Truthy(Get(p, "active")) THEN {ACTIVE} ELSE {})
        \cup (IF Truthy(Get(p, "disabled")) THEN {DISABLED} ELSE {})
        \cup (IF Truthy(Get(p, "shouldDismissPopover")) /\ ~hasSubmenuOf(p)
              THEN {POPOVER_DISMISS} ELSE {})
        \cup (IF Truthy(Get(p, "active")) /\ ic = Undefined THEN {SELECTED} ELSE {})
        \cup ClassTokens(Get(p, "className"))

\* anchorClassesOf without the shouldDismissPopover conjunct of the dismiss class
anchorClassesOf_IgnoresShouldDismiss(p) ==
    LET ic == intentClass(Get(p, "intent"))
    IN  {MENU_ITEM}
        \cup ClassTokens(ic)
        \cup (IF Truthy(Get(p, "active")) THEN {ACTIVE} ELSE {})
        \cup (IF Truthy(Get(p, "disabled")) THEN {DISABLED} ELSE {})
        \cup (IF ~Truthy(Get(p, "disabled")) /\ ~hasSubmenuOf(p)
              THEN {POPOVER_DISMISS} ELSE {})
        \cup (IF Truthy(Get(p, "active")) /\ ic = Undefined THEN {SELECTED} ELSE {})
        \cup ClassTokens(Get(p, "className"))

\* classNames(Classes.MENU_ITEM, intentClass, {...}, className)
anchorClassesOf(p) ==
    LET ic == intentClass(Get(p, "intent"))
    IN  {MENU_ITEM}
        \cup ClassTokens(ic)
        \cup (IF Truthy(Get(p, "active")) THEN {ACTIVE} ELSE {})
        \cup (IF Truthy(Get(p, "disabled")) THEN {DISABLED} ELSE {})
        \cup (IF Truthy(Get(p, "shouldDismissPopover")) /\ ~Truthy(Get(p, "disabled")) /\ ~hasSubmenuOf(p)
              THEN {POPOVER_DISMISS} ELSE {})
        \cup (IF Truthy(Get(p, "active")) /\ ic = Undefined THEN {SELECTED} ELSE {})
        \cup ClassTokens(Get(p, "className"))

\* targetPropsOf with htmlProps spread after DISABLED_PROPS instead of before
targetPropsOf_HtmlPropsLast(p) ==
    Spread(Spread([role |-> roleStructureOf(p).targetRole, tabIndex |-> "0"],
                  IF Truthy(Get(p, "disabled")) THEN DISABLED_PROPS ELSE EmptyObject),
           htmlPropsOf(p))

\* { role: targetRole, tabIndex: 0, ...htmlProps, ...(disabled ? DISABLED_PROPS : {}) }
targetPropsOf(p) ==
    Spread(Spread([role |-> roleStructureOf(p).targetRole, tabIndex |-> "0"], htmlPropsOf(p)),
           IF Truthy(Get(p, "disabled")) THEN DISABLED_PROPS ELSE EmptyObject)

\* maybeRenderLabel: the label <span>, or null without label and labelElement
maybeRenderLabel(p) ==
    IF IsNullish(Get(p, "label")) /\ IsNullish(Get(p, "labelElement"))
    THEN [present |-> FALSE, classes |-> {}, label |-> Undefined, labelElement |-> Undefined]
    ELSE [present |-> TRUE,
          classes |-> {MENU_ITEM_LABEL} \cup ClassTokens(Get(p, "labelClassName")),
          label |-> Get(p, "label"), labelElement |-> Get(p, "labelElement")]

\* React.createElement(tagName, {...}, icon, text, label, caret)
targetOf(p) ==
    LET icon == roleStructureOf(p).icon
    IN  [tagName |-> IF Get(p, "tagName") = Undefined THEN "a" ELSE p.tagName,
         props |-> targetPropsOf(p),
         className |-> anchorClassesOf(p),
         icon |-> IF ~IsNullish(icon) THEN icon ELSE Undefined,
         text |-> [text |-> Get(p, "text"),
                   classes |-> {FILL} \cup ClassTokens(Get(p, "textClassName")),
                   ellipsize |-> ToBoolean(IF Truthy(Get(p, "multiline")) THEN "false" ELSE "true"),
                   title |-> Get(p, "htmlTitle")],
         label |-> maybeRenderLabel(p),
         caret |-> hasSubmenuOf(p)]

\* submenuPopoverPropsOf with popoverProps spread after content and minimal
submenuPopoverPropsOf_PopoverPropsLast(p, pp, sp) ==
    [props |-> Spread(Spread([autoFocus |-> "false", captureDismiss |-> "false",
                              disabled |-> Get(p, "disabled"), enforceFocus |-> "false",
                              hoverCloseDelay |-> "0", interactionKind |-> "hover",
                              modifiers |-> SUBMENU_POPOVER_MODIFIERS,
                              placement |-> "right-start", usePortal |-> "false"],
                             [content |-> "Menu", minimal |-> "true"]),
                      Rest(pp, {"popoverClassName"})),
     menu |-> [props |-> sp, children |-> Get(p, "children")],
     popoverClassName |-> {MENU_SUBMENU} \cup ClassTokens(Get(pp, "popoverClassName"))]

\* the props of the submenu <Popover>: the fixed ones, then popoverProps, then
\* content, minimal and popoverClassName
submenuPopoverPropsOf(p, pp, sp) ==
    [props |-> Spread(Spread([autoFocus |-> "false", captureDismiss |-> "false",
                              disabled |-> Get(p, "disabled"), enforceFocus |-> "false",
                              hoverCloseDelay |-> "0", interactionKind |-> "hover",
                              modifiers |-> SUBMENU_POPOVER_MODIFIERS,
                              placement |-> "right-start", usePortal |-> "false"],
                             Rest(pp, {"popoverClassName"})),
                      [content |-> "Menu", minimal |-> "true"]),
     menu |-> [props |-> sp, children |-> Get(p, "children")],
     popoverClassName |-> {MENU_SUBMENU} \cup ClassTokens(Get(pp, "popoverClassName"))]

NoPopover == [props |-> EmptyObject, menu |-> [props |-> EmptyObject, children |-> Undefined], popoverClassName |-> {}]

\* maybeRenderPopover(target, children): the child of the <li>
maybeRenderPopover(p, pp, sp) ==
    IF IsNullish(Get(p, "children"))
    THEN [child |-> "target", popover |-> NoPopover]
    ELSE [child |-> "Popover", popover |-> submenuPopoverPropsOf(p, pp, sp)]

\* MenuItem.render(): <li className role aria-selected>{maybeRenderPopover(target, children)}</li>
MenuItemRender(ownProps, pp, sp) ==
    LET p == ResolveDefaultProps(ownProps)
        wrapped == maybeRenderPopover(p, pp, sp)
    IN  [li |-> [className |-> IF hasSubmenuOf(p) THEN {MENU_SUBMENU} ELSE {},
                 role |-> roleStructureOf(p).liRole,
                 ariaSelected |-> roleStructureOf(p).ariaSelected,
                 child |-> wrapped.child],
         popover |-> wrapped.popover,
         target |-> targetOf(p)]

\* the output variable before the first render()
NotRendered == [li |-> EmptyObject, popover |-> EmptyObject, target |-> EmptyObject]

\* the prop bags a caller may pass (Absent: the key is not passed): every combination of
\* the props that reach the target element and the <li>
MenuItemPropsDomain ==
    [disabled : {Absent, "true", "false"},
     children : {Absent, "submenu"},
     shouldDismissPopover : {Absent, "true", "false"},
     roleStructure : {Absent, "menuitem", "listoption"},
     selected : {Absent, "true", "false"},
     icon : {Absent, "cog"},
     className : {Absent, "my-item", POPOVER_DISMISS},
     role : {Absent, "button"},
     href : {Absent, "#"},
     tabIndex : {Absent, "3"},
     onClick : {Absent, "fn"},
     onMouseDown : {Absent, "fn"},
     onMouseEnter : {Absent, "fn"},
     onMouseLeave : {Absent, "fn"},
     text : {"Item"}]

\* the prop bags of the items whose submenu popover is varied
SubmenuItemPropsDomain ==
    [disabled : {Absent, "true"},
     children : {Absent, Null, "false", "submenu"},
     shouldDismissPopover : {Absent, "false"},
     roleStructure : {Absent, "listoption"},
     className : {Absent, POPOVER_DISMISS},
     active : {Absent, "true"},
     intent : {Absent, "primary"},
     label : {Absent, "Ctrl+K"},
     text : {"Item"}]

\* the popoverProps objects a caller may pass; content and minimal are outside the
\* prop's type and reach render() all the same
PopoverPropsDomain ==
    [usePortal : {Absent, "true", "false"},
     content : {Absent, "other"},
     minimal : {Absent, "false"},
     popoverClassName : {Absent, "my-popover"}]

SubmenuPropsDomain == [className : {Absent, "my-menu"}]

\* a MenuItem that is constructed and not rendered
MenuItemCreated ==
    /\ output = NotRendered
    /\ rendered = FALSE

InitMenuItem ==
    /\ MenuItemCreated
    /\ \/ /\ props \in {ObjectOf(r) : r \in MenuItemPropsDomain}
          /\ popoverProps = EmptyObject
          /\ submenuProps = EmptyObject
       \/ /\ props \in {ObjectOf(r) : r \in SubmenuItemPropsDomain}
          /\ popoverProps \in {ObjectOf(r) : r \in PopoverPropsDomain}
          /\ submenuProps \in {ObjectOf(r) : r \in SubmenuPropsDomain}

NoMenuItem ==
    /\ MenuItemCreated
    /\ props = EmptyObject
    /\ popoverProps = EmptyObject
    /\ submenuProps = EmptyObject

render ==
    /\ ~rendered
    /\ output' = MenuItemRender(props, popoverProps, submenuProps)
    /\ rendered' = TRUE
    /\ UNCHANGED <<props, popoverProps, submenuProps>>
    /\ UNCHANGED <<omnibarVars, selectVars>>

----------------------------------------------------------------------------
(* docs-app: OmnibarExample *)

\* the bound of the model: the number of handler calls of a run
MaxEvents == 4

\* two of TOP_100_FILMS, by title
Films == {"The Godfather", "Pulp Fiction"}

\* public state: OmnibarExampleState = { allowCreate: false, isOpen: false, resetOnSelect: true }
InitialState == [allowCreate |-> FALSE, isOpen |-> FALSE, resetOnSelect |-> TRUE]

\* React's processing of the queued partial states: each is merged into the state, in
\* the order of the setState calls
RECURSIVE ProcessUpdateQueue(_, _)
ProcessUpdateQueue(s, q) ==
    IF q = <<>> THEN s
    ELSE ProcessUpdateQueue([k \in DOMAIN s |-> IF k \in DOMAIN Head(q) THEN Head(q)[k] ELSE s[k]], Tail(q))

\* this.setState(partial): the partial state is queued; this.state changes when React
\* applies the queue
setState(partial) == updateQueue' = Append(updateQueue, partial)

\* a handler call, as the history records it: the handler, its argument and the
\* this.state.isOpen it could read
Called(name, arg) ==
    /\ Len(events) < MaxEvents
    /\ events' = Append(events, [name |-> name, arg |-> arg, isOpen |-> state.isOpen])

InitOmnibar ==
    /\ state = InitialState
    /\ updateQueue = <<>>
    /\ toasts = <<>>
    /\ events = <<>>

\* private handleClick = (_event) => { this.setState({ isOpen: true }); }
handleClick ==
    /\ Called("handleClick", "")
    /\ setState([isOpen |-> TRUE])
    /\ UNCHANGED <<state, toasts>>
    /\ UNCHANGED <<menuVars, selectVars>>

\* handleItemSelect without the setState call: the toast is shown, the omnibar stays open
handleItemSelect_NoClose(film) ==
    /\ Called("handleItemSelect", film)
    /\ toasts' = Append(toasts, film)
    /\ UNCHANGED <<state, updateQueue>>
    /\ UNCHANGED <<menuVars, selectVars>>

\* private handleItemSelect = (film) => { this.setState({ isOpen: false }); this.toaster.show(...) }
handleItemSelect(film) ==
    /\ Called("handleItemSelect", film)
    /\ setState([isOpen |-> FALSE])
    /\ toasts' = Append(toasts, film)
    /\ UNCHANGED state
    /\ UNCHANGED <<menuVars, selectVars>>

\* private handleClose = () => this.setState({ isOpen: false })
handleClose ==
    /\ Called("handleClose", "")
    /\ setState([isOpen |-> FALSE])
    /\ UNCHANGED <<state, toasts>>
    /\ UNCHANGED <<menuVars, selectVars>>

\* private handleToggle = () => this.setState({ isOpen: !this.state.isOpen })
handleToggle ==
    /\ Called("handleToggle", "")
    /\ setState([isOpen |-> ~state.isOpen])
    /\ UNCHANGED <<state, toasts>>
    /\ UNCHANGED <<menuVars, selectVars>>

\* handleBooleanChange(allowCreate => this.setState({ allowCreate })), on the switch's value
handleAllowCreateChange(checked) ==
    /\ Called("handleAllowCreateChange", IF checked THEN "true" ELSE "false")
    /\ setState([allowCreate |-> checked])
    /\ UNCHANGED <<state, toasts>>
    /\ UNCHANGED <<menuVars, selectVars>>

\* handleBooleanChange(resetOnSelect => this.setState({ resetOnSelect })), on the switch's value
handleResetChange(checked) ==
    /\ Called("handleResetChange", IF checked THEN "true" ELSE "false")
    /\ setState([resetOnSelect |-> checked])
    /\ UNCHANGED <<state, toasts>>
    /\ UNCHANGED <<menuVars, selectVars>>

\* React applies the queued updates and re-renders; it may do so after one setState or
\* after several
flushUpdates ==
    /\ updateQueue # <<>>
    /\ state' = ProcessUpdateQueue(state, updateQueue)
    /\ updateQueue' = <<>>
    /\ UNCHANGED <<toasts, events>>
    /\ UNCHANGED <<menuVars, selectVars>>

----------------------------------------------------------------------------
(* select: the <Select> the test suite mounts, with MenuItem as its item *)

\* the bound of the model: the number of simulated events of a run
MaxSelectEvents == 4

\* the popoverProps the tests pass to select(...); modifiers is an object of the caller,
\* known by its identity
SelectPopoverPropsDomain ==
    [isOpen : {Absent, "true", "false"},
     onOpening : {Absent, "spy"},
     modifiers : {Absent, "modifiers#1", "modifiers#2"},
     usePortal : {"false"}]

\* const itemRenderer = (film) => <MenuItem text={...} shouldDismissPopover={...} />
itemRenderer(shouldDismissPopover) ==
    MenuItemRender([text |-> "1. The Shawshank Redemption", shouldDismissPopover |-> shouldDismissPopover],
                   EmptyObject, EmptyObject)

\* the props Select gives its Popover: its own isOpen state unless popoverProps sets
\* isOpen, the caller's popoverProps, and its own onOpening handler
SelectPopoverProps(sp, isOpen) ==
    Spread(Spread([isOpen |-> IF isOpen THEN "true" ELSE "false"], sp.popoverProps),
           [onOpening |-> "Select.handlePopoverOpening"])

PopoverIsOpen(sp, isOpen) == SelectPopoverProps(sp, isOpen).isOpen = "true"

\* handlePopoverOpening that does not pass the call on
handlePopoverOpening_NotPassedOn(sp, calls) == calls

\* Select's onOpening handler passes the call on to popoverProps.onOpening
handlePopoverOpening(sp, calls) == IF "onOpening" \in DOMAIN sp.popoverProps THEN calls + 1 ELSE calls

\* the Select's state.isOpen after a click on a rendered menu item: the popover is
\* dismissed when the item's target carries the dismiss class
isOpenAfterItemClick(item, isOpen) == IF POPOVER_DISMISS \in item.target.className THEN FALSE ELSE isOpen

Simulated(event) ==
    /\ selectSteps < MaxSelectEvents
    /\ selectSteps' = selectSteps + 1
    /\ selectEvent' = event

InitSelect ==
    /\ selectProps \in [popoverProps : {ObjectOf(r) : r \in SelectPopoverPropsDomain},
                        itemShouldDismissPopover : {"true", "false"}]
    /\ selectState = FALSE
    /\ onOpeningCalls = 0
    /\ selectEvent = "mount"
    /\ selectSteps = 0

NoSelect ==
    /\ selectProps = [popoverProps |-> EmptyObject, itemShouldDismissPopover |-> "true"]
    /\ selectState = FALSE
    /\ onOpeningCalls = 0
    /\ selectEvent = "mount"
    /\ selectSteps = 0

\* wrapper.find("[data-testid='target-button']").simulate("click")
clickTarget ==
    /\ Simulated("clickTarget")
    /\ selectState' = ~PopoverIsOpen(selectProps, selectState)
    /\ onOpeningCalls' =
         IF ~PopoverIsOpen(selectProps, selectState) /\ PopoverIsOpen(selectProps, selectState')
         THEN handlePopoverOpening(selectProps, onOpeningCalls) ELSE onOpeningCalls
    /\ UNCHANGED selectProps
    /\ UNCHANGED <<menuVars, omnibarVars>>

\* wrapper.find("[data-testid='target-button']").simulate("keydown", { key: "ArrowDown" }), while closed
keyDownTarget ==
    /\ Simulated("keyDownTarget")
    /\ ~PopoverIsOpen(selectProps, selectState)
    /\ selectState' = TRUE
    /\ onOpeningCalls' =
         IF PopoverIsOpen(selectProps, selectState')
         THEN handlePopoverOpening(selectProps, onOpeningCalls) ELSE onOpeningCalls
    /\ UNCHANGED selectProps
    /\ UNCHANGED <<menuVars, omnibarVars>>

\* wrapper.find(Popover).find(`.${CoreClasses.MENU_ITEM}`).first().simulate("click")
clickMenuItem ==
    /\ Simulated("clickMenuItem")
    /\ PopoverIsOpen(selectProps, selectState)
    /\ selectState' = isOpenAfterItemClick(itemRenderer(selectProps.itemShouldDismissPopover), selectState)
    /\ UNCHANGED <<selectProps, onOpeningCalls>>
    /\ UNCHANGED <<menuVars, omnibarVars>>

----------------------------------------------------------------------------
(* specifications: the three components share no state, each has its own *)

NextMenuItem == render

\* a MenuItem with its props, beside an unused OmnibarExample and Select
InitMenuItemOnly == InitMenuItem /\ InitOmnibar /\ NoSelect

SpecMenuItem == InitMenuItemOnly /\ [][NextMenuItem]_vars

NextOmnibar ==
    \/ handleClick
    \/ \E film \in Films : handleItemSelect(film)
    \/ handleClose
    \/ handleToggle
    \/ \E checked \in BOOLEAN : handleAllowCreateChange(checked)
    \/ \E checked \in BOOLEAN : handleResetChange(checked)
    \/ flushUpdates

InitOmnibarOnly == NoMenuItem /\ InitOmnibar /\ NoSelect

SpecOmnibar == InitOmnibarOnly /\ [][NextOmnibar]_vars

NextSelect ==
    \/ clickTarget
    \/ keyDownTarget
    \/ clickMenuItem

InitSelectOnly == NoMenuItem /\ InitOmnibar /\ InitSelect

SpecSelect == InitSelectOnly /\ [][NextSelect]_vars

----------------------------------------------------------------------------
(* MenuItem: properties of render() *)

\* the caller passed disabled=true / did not (disabled defaults to false)
IsDisabled == Get(props, "disabled") = "true"

MouseProps == {"href", "onClick", "onMouseDown", "onMouseEnter", "onMouseLeave"}

\* the condition render() puts the dismiss class under, in terms of the caller's props
DismissCondition ==
    /\ Get(props, "shouldDismissPopover") \in {"true", Undefined}
    /\ ~IsDisabled
    /\ IsNullish(Get(props, "children"))

\* C1: a disabled item's target has href and the four mouse handlers undefined and
\* tabIndex -1, whatever the caller passed; an enabled item's target has the caller's
\* values, tabIndex being 0 when the caller passes none.
C1_DisabledIgnoresProps ==
    rendered =>
        /\ IsDisabled =>
            /\ \A k \in MouseProps : Get(output.target.props, k) = Undefined
            /\ Get(output.target.props, "tabIndex") = "-1"
        /\ ~IsDisabled =>
            /\ \A k \in MouseProps : Get(output.target.props, k) = Get(props, k)
            /\ Get(output.target.props, "tabIndex")
                 = IF "tabIndex" \in DOMAIN props THEN props.tabIndex ELSE "0"

C1_Witness ==
    /\ rendered
    /\ IsDisabled
    /\ MouseProps \cup {"tabIndex"} \subseteq DOMAIN props
    /\ Get(output.target.props, "tabIndex") = "-1"

\* C2 as stated: the target carries the dismiss class exactly when shouldDismissPopover
\* (default true) holds, the item is enabled and has no children, for every value of the
\* other props.
C2_DismissIffCondition ==
    rendered => ((POPOVER_DISMISS \in output.target.className) <=> DismissCondition)

\* C2 as amended: the target carries the dismiss class exactly when that condition holds
\* or the caller's own className is the dismiss class.
C2_DismissIffConditionOrClassName ==
    rendered =>
        ((POPOVER_DISMISS \in output.target.className)
            <=> (DismissCondition \/ POPOVER_DISMISS \in ClassTokens(Get(props, "className"))))

C2_Witness ==
    /\ rendered
    /\ IsDisabled
    /\ Get(props, "shouldDismissPopover") = "true"
    /\ Get(props, "className") = "my-item"
    /\ POPOVER_DISMISS \notin output.target.className

\* the role structure the caller asks for
IsListOption == Get(props, "roleStructure") = "listoption"

\* C3 as stated: with roleStructure "menuitem" or omitted the <li> has role "none", the
\* target role "menuitem" and the <li> no aria-selected; with "listoption" the <li> has
\* role "option" and the target no role; for every value of the other props.
C3_RoleStructure ==
    rendered =>
        /\ ~IsListOption =>
            /\ output.li.role = "none"
            /\ Get(output.target.props, "role") = "menuitem"
            /\ output.li.ariaSelected = Undefined
        /\ IsListOption =>
            /\ output.li.role = "option"
            /\ Get(output.target.props, "role") = Undefined

\* C3 as amended: the same, except that a role attribute passed by the caller is the
\* target's role in both structures.
C3_RoleStructureUnlessRolePassed ==
    rendered =>
        /\ ~IsListOption =>
            /\ output.li.role = "none"
            /\ output.li.ariaSelected = Undefined
        /\ IsListOption => output.li.role = "option"
        /\ Get(output.target.props, "role")
             = IF "role" \in DOMAIN props THEN props.role
               ELSE IF IsListOption THEN Undefined ELSE "menuitem"

C3_Witness ==
    /\ rendered
    /\ IsListOption
    /\ "role" \notin DOMAIN props
    /\ Get(props, "selected") = "true"
    /\ output.li.role = "option"

\* C4 as stated: with selected defined the <li> has aria-selected set and the item's icon
\* is the icon prop if passed, else the check icon for true and the blank icon for false;
\* with selected undefined the icon is neither; for every roleStructure.
C4_SelectedSetsAriaAndIcon ==
    rendered =>
        /\ Get(props, "selected") # Undefined =>
            /\ output.li.ariaSelected = Get(props, "selected")
            /\ output.target.icon
                 = IF "icon" \in DOMAIN props THEN props.icon
                   ELSE IF props.selected = "true" THEN "small-tick" ELSE "blank"
        /\ Get(props, "selected") = Undefined => output.target.icon \notin {"small-tick", "blank"}

\* C5: whatever popoverProps holds, the submenu Popover has content = the Menu of the
\* children, minimal = true, usePortal = popoverProps.usePortal if passed and false
\* otherwise, and a class name with Classes.MENU_SUBMENU and popoverProps.popoverClassName.
C5_PopoverPropsCannotOverride ==
    (rendered /\ output.li.child = "Popover") =>
        /\ output.popover.props.content = "Menu"
        /\ output.popover.menu.children = props.children
        /\ output.popover.props.minimal = "true"
        /\ output.popover.props.usePortal
             = IF "usePortal" \in DOMAIN popoverProps THEN popoverProps.usePortal ELSE "false"
        /\ MENU_SUBMENU \in output.popover.popoverClassName
        /\ ClassTokens(Get(popoverProps, "popoverClassName")) \subseteq output.popover.popoverClassName

C5_Witness ==
    /\ rendered
    /\ output.li.child = "Popover"
    /\ {"content", "minimal", "usePortal", "popoverClassName"} \subseteq DOMAIN popoverProps
    /\ popoverProps.usePortal = "true"
    /\ output.popover.props.minimal = "true"

\* C6: the <li> holds a submenu Popover exactly when children is not null/undefined:
\* without children, the target itself, no caret and no MENU_SUBMENU class; with children,
\* the MENU_SUBMENU class, the caret and a Popover whose content is the Menu of the children.
C6_PopoverIffChildren ==
    rendered =>
        /\ IsNullish(Get(props, "children")) =>
            /\ output.li.child = "target"
            /\ output.popover = NoPopover
            /\ ~output.target.caret
            /\ MENU_SUBMENU \notin output.li.className
        /\ ~IsNullish(Get(props, "children")) =>
            /\ output.li.child = "Popover"
            /\ output.popover.props.content = "Menu"
            /\ output.popover.menu.children = props.children
            /\ output.target.caret
            /\ MENU_SUBMENU \in output.li.className

C6_Witness ==
    /\ rendered
    /\ Get(props, "children") = "false"
    /\ output.li.child = "Popover"
    /\ output.target.caret

----------------------------------------------------------------------------
(* Select: properties of the popover *)

\* popoverProps without isOpen: the Select's own state decides
Uncontrolled == "isOpen" \notin DOMAIN selectProps.popoverProps

IsSimulated(event) == selectSteps' = selectSteps + 1 /\ selectEvent' = event

C7_StartsClosed == (Uncontrolled /\ selectSteps = 0) => ~PopoverIsOpen(selectProps, selectState)

C7_Step ==
    Uncontrolled =>
        /\ (IsSimulated("clickTarget") /\ ~PopoverIsOpen(selectProps, selectState))
              => PopoverIsOpen(selectProps', selectState')
        /\ (IsSimulated("clickMenuItem") /\ selectProps.itemShouldDismissPopover = "true")
              => ~PopoverIsOpen(selectProps', selectState')
        /\ (IsSimulated("clickMenuItem") /\ selectProps.itemShouldDismissPopover = "false")
              => PopoverIsOpen(selectProps', selectState')

\* C7: an uncontrolled Select's popover starts closed, is open after a click on the
\* target, and after a click on a menu item is closed if the item was rendered with
\* shouldDismissPopover=true and open if it was rendered with shouldDismissPopover=false.
C7_ItemClickDismisses == []C7_StartsClosed /\ [][C7_Step]_vars

C7_Witness ==
    /\ Uncontrolled
    /\ selectProps.itemShouldDismissPopover = "true"
    /\ selectSteps = 2
    /\ selectEvent = "clickMenuItem"
    /\ ~PopoverIsOpen(selectProps, selectState)

C8_ModifiersPassed ==
    "modifiers" \in DOMAIN selectProps.popoverProps
        => SelectPopoverProps(selectProps, selectState).modifiers = selectProps.popoverProps.modifiers

C8_Step ==
    (IsSimulated("clickTarget") /\ "onOpening" \in DOMAIN selectProps.popoverProps) =>
        onOpeningCalls' =
            IF ~PopoverIsOpen(selectProps, selectState) /\ PopoverIsOpen(selectProps', selectState')
            THEN onOpeningCalls + 1 ELSE onOpeningCalls

\* C8: the Popover gets the caller's popoverProps.modifiers object itself, and every
\* opening of the popover by a click on the target calls the caller's
\* popoverProps.onOpening exactly once.
C8_PopoverPropsPassThrough == []C8_ModifiersPassed /\ [][C8_Step]_vars

C8_Witness ==
    /\ selectProps.popoverProps = [onOpening |-> "spy", modifiers |-> "modifiers#1", usePortal |-> "false"]
    /\ selectSteps = 1
    /\ selectEvent = "clickTarget"
    /\ PopoverIsOpen(selectProps, selectState)
    /\ onOpeningCalls = 1

----------------------------------------------------------------------------
(* OmnibarExample: properties of the handlers *)

OpenCloseToggle == {"handleClick", "handleItemSelect", "handleClose", "handleToggle"}

\* what a handler call sets isOpen to: true, false, or the negation of the
\* this.state.isOpen the call read
EffectOf(e) ==
    IF e.name = "handleClick" THEN TRUE
    ELSE IF e.name = "handleToggle" THEN ~e.isOpen
    ELSE FALSE

\* the effect of the last open/close/toggle call, false (the initial isOpen) without one
LastEffect ==
    LET calls == {i \in 1..Len(events) : events[i].name \in OpenCloseToggle}
    IN  IF calls = {} THEN FALSE
        ELSE EffectOf(events[CHOOSE i \in calls : \A j \in calls : j <= i])

C9_LastEventDecides == updateQueue = <<>> => state.isOpen = LastEffect

C9_Step ==
    LET before == ProcessUpdateQueue(state, updateQueue)
        after == ProcessUpdateQueue(state', updateQueue')
        e == events'[Len(events')]
    IN  IF events' = events
        THEN after = before /\ toasts' = toasts
        ELSE /\ e.name = "handleClick" => after = [before EXCEPT !.isOpen = TRUE]
             /\ e.name = "handleItemSelect" => after = [before EXCEPT !.isOpen = FALSE]
             /\ e.name = "handleClose" => after = [before EXCEPT !.isOpen = FALSE]
             /\ e.name = "handleToggle" => after = [before EXCEPT !.isOpen = ~state.isOpen]
             /\ e.name \notin OpenCloseToggle => after.isOpen = before.isOpen
             /\ toasts' = IF e.name = "handleItemSelect" THEN Append(toasts, e.arg) ELSE toasts

ToggleCount == Cardinality({i \in 1..Len(events) : events[i].name = "handleToggle"})

\* C10: after n handleToggle calls and no other open/close call, isOpen is true exactly
\* when n is odd, however React batches the updates of the calls.
C10_ToggleParity ==
    (updateQueue = <<>> /\ \A i \in 1..Len(events) : events[i].name \notin OpenCloseToggle \ {"handleToggle"})
        => (state.isOpen <=> ToggleCount % 2 = 1)

====
